---- MODULE Spec2Model ----
(***************************************************************************)
(* A model of the performance monitor of src/performance-monitor/src/      *)
(* main.cpp: class SystemMetrics (the atomic monitoring flag, the sampler  *)
(* thread handle, data_mutex and the metric_history queue), its sampler    *)
(* thread monitor_loop, and the operations start_monitoring,               *)
(* stop_monitoring, get_current_metrics and get_history as they are called *)
(* from arbitrary caller threads.                                          *)
(*                                                                         *)
(* Every thread is a little program counter machine; one action is one     *)
(* step between two points where another thread can interleave.  Code that *)
(* touches only locals of one thread is folded into one step.              *)
(***************************************************************************)
EXTENDS Integers, Sequences, FiniteSets, TLC

\* ---------------------------------------------------------------- bounds
\* capacity of the history queue (1000 in the program, scaled down)
MAX_HISTORY_SIZE == 3
\* snapshots the sampler threads may build in one run
MaxBuilds == 4
\* largest reading of the steady clock
MaxClock == 1
\* largest count passed to get_history
MaxCount == 3

\* the caller threads that invoke the public operations concurrently
Callers == {1, 2}
\* the sampler threads that can be spawned in one run
ThreadIds == {1, 2}
MaxThreads == Cardinality(ThreadIds)
Counts == 0..MaxCount

\* std::thread with no associated thread of execution (joinable() == false)
NoThread == 0

\* ------------------------------------------------------------ metric data
\* unsigned long long arithmetic, with the 64 bits scaled down to 8
ULL == 256

\* the threshold of the high-usage warnings of monitor_loop
WarnThreshold == 90
\* readings of the percentage sources
PctValues == {0, 90, 95}
\* what an uninitialised double of a MetricSnapshot may hold
Junk == 777
Garbage == PctValues \cup {Junk}

\* the metric sources in the order get_current_metrics calls them
SrcCpu == 1
SrcMem == 2
SrcDisk == 3
SrcNet == 4
SrcProc == 5

\* One run of the five sources: the reading each one returns when it is
\* called, the source that throws (0: none; the sources after it are never
\* called) and the indeterminate contents of the snapshot under construction.
AllInputs ==
    [cpu : PctValues, mem : PctValues, disk : {0, 90}, net : {0, 5},
     procs : {<<>>, <<1>>}, fail : 0..5,
     ucpu : {0, Junk}, umem : {0, Junk}, udisk : {0, Junk}, unet : {0, Junk}]

\* the inputs used where many threads interleave: one clean run of the sources
CoarseInputs ==
    {[cpu |-> 95, mem |-> 0, disk |-> 0, net |-> 0, procs |-> <<>>, fail |-> 0,
      ucpu |-> 0, umem |-> 0, udisk |-> 0, unet |-> 0]}

NoInput == CHOOSE i \in CoarseInputs : TRUE

\* source k was called and returned normally
Returned(in, k) == in.fail = 0 \/ k < in.fail

\* get_current_metrics: the fields are assigned in order inside one try block;
\* the first source that throws ends the block, the catch logs, and the
\* snapshot is returned with the remaining doubles never written.
\* seq is not a field of the program: it numbers the snapshots built.
GetCurrentMetrics(now, in, n) ==
    [timestamp     |-> now,
     cpu_usage     |-> IF Returned(in, SrcCpu) THEN in.cpu ELSE in.ucpu,
     memory_usage  |-> IF Returned(in, SrcMem) THEN in.mem ELSE in.umem,
     disk_usage    |-> IF Returned(in, SrcDisk) THEN in.disk ELSE in.udisk,
     network_rx    |-> IF Returned(in, SrcNet) THEN in.net ELSE in.unet,
     network_tx    |-> IF Returned(in, SrcNet) THEN in.net ELSE in.unet,
     top_processes |-> IF Returned(in, SrcProc) THEN in.procs ELSE <<>>,
     seq           |-> n]

\* logger.error in the catch block of get_current_metrics
LogsCollectError(in) == in.fail # 0

NoSnapshot == GetCurrentMetrics(0, NoInput, 0)

\* ------------------------------------------------------------ get_history
\* the item count without the test for count == 0
ItemsNoZero(count, size) == IF count > size THEN size ELSE count

\* size_t items = (count == 0 || count > size) ? size : count;
Items(count, size) == IF count = 0 \/ count > size THEN size ELSE count

\* for (i = 0; i < items && !temp.empty(); ++i) { push_back(front); pop(); }
\* returns the vector built and what is left of temp
RECURSIVE CopyLoop(_, _, _, _)
CopyLoop(i, items, temp, history) ==
    IF i < items /\ temp # <<>>
    THEN CopyLoop(i + 1, items, Tail(temp), Append(history, Head(temp)))
    ELSE [history |-> history, temp |-> temp]

\* ------------------------------------------------------------------ state
VARIABLES
    monitoring,         \* std::atomic<bool> monitoring
    monitoring_thread,  \* the thread the handle refers to, or NoThread
    data_mutex,         \* owner of data_mutex
    metric_history,     \* std::queue<MetricSnapshot>, front first
    thr,                \* the sampler threads: position and local snapshot
    nthreads,           \* threads spawned so far
    call,               \* the caller threads: position and locals
    clock,              \* std::chrono::steady_clock
    terminated,         \* std::terminate was called: the process is gone
    appended,           \* history variable: every snapshot pushed, in order
    nbuilt,             \* history variable: snapshots built by the samplers
    joined,             \* history variable: threads already joined
    warned,             \* the warnings each sampler logged in its tick
    first_call,         \* get_cpu_usage: static bool first_call
    lastTotal,          \* get_cpu_usage: static lastTotalUser ... lastTotalIdle
    procstat,           \* the cpu line of /proc/stat
    cpucall             \* the locals of the get_cpu_usage calls under way

\* the static state of get_cpu_usage and what it reads
Statics == <<first_call, lastTotal, procstat, cpucall>>

vars == <<monitoring, monitoring_thread, data_mutex, metric_history, thr,
          nthreads, call, clock, terminated, appended, nbuilt, joined,
          warned, Statics>>

Unlocked == [kind |-> "free", id |-> 0]
ByThread(t) == [kind |-> "thr", id |-> t]
ByCaller(c) == [kind |-> "call", id |-> c]

\* a lock that never waits
CanLockAlways(m) == TRUE

\* std::lock_guard constructor: blocks until the mutex is free
CanLock(m) == m = Unlocked

\* the jiffies of the cpu line of /proc/stat: user + nice + system, and idle
NoTicks == [busy |-> 0, idle |-> 0]

\* the threads that can run get_cpu_usage: samplers and callers
Actors == [kind : {"thr"}, id : ThreadIds] \cup [kind : {"call"}, id : Callers]

\* no call of get_cpu_usage under way
NoCpuCall == [pc |-> "out", now |-> NoTicks, percent |-> 0]

IdleCall ==
    [pc |-> "idle", arg |-> 0, count |-> 0, size |-> 0, items |-> 0, temp |-> <<>>,
     history |-> <<>>, target |-> NoThread, snap |-> NoSnapshot,
     input |-> NoInput, result |-> "none"]

Init ==
    /\ monitoring = FALSE
    /\ monitoring_thread = NoThread
    /\ data_mutex = Unlocked
    /\ metric_history = <<>>
    /\ thr = [t \in ThreadIds |-> [pc |-> "unborn", snapshot |-> NoSnapshot]]
    /\ nthreads = 0
    /\ call = [c \in Callers |-> IdleCall]
    /\ clock = 0
    /\ terminated = FALSE
    /\ appended = <<>>
    /\ nbuilt = 0
    /\ joined = {}
    /\ warned = [t \in ThreadIds |-> {}]
    /\ first_call = TRUE
    /\ lastTotal = NoTicks
    /\ procstat = NoTicks
    /\ cpucall = [a \in Actors |-> NoCpuCall]

\* the sampler threads that exist and have not left monitor_loop
Active == {t \in ThreadIds : thr[t].pc \notin {"unborn", "done"}}

\* ---------------------------------------------------------- steady_clock
Tick ==
    /\ ~terminated
    /\ clock < MaxClock
    /\ clock' = clock + 1
    /\ UNCHANGED <<monitoring, monitoring_thread, data_mutex, metric_history,
                   thr, nthreads, call, terminated, appended, nbuilt, joined,
                   warned, Statics>>

\* ----------------------------------------------------------- monitor_loop
\* while (monitoring.load())
LoopCheck(t) ==
    /\ ~terminated
    /\ thr[t].pc = "check"
    /\ IF monitoring
       THEN /\ nbuilt + Cardinality({u \in ThreadIds : thr[u].pc = "build"})
                 < MaxBuilds
            /\ thr' = [thr EXCEPT ![t].pc = "build"]
       ELSE thr' = [thr EXCEPT ![t].pc = "done"]
    /\ UNCHANGED <<monitoring, monitoring_thread, data_mutex, metric_history,
                   nthreads, call, clock, terminated, appended, nbuilt, joined,
                   warned, Statics>>

\* MetricSnapshot snapshot = get_current_metrics();
LoopBuild(t, Inputs) ==
    /\ ~terminated
    /\ thr[t].pc = "build"
    /\ \E in \in Inputs :
          thr' = [thr EXCEPT ![t].pc = "lock",
                             ![t].snapshot =
                                 GetCurrentMetrics(clock, in, nbuilt + 1)]
    /\ nbuilt' = nbuilt + 1
    /\ UNCHANGED <<monitoring, monitoring_thread, data_mutex, metric_history,
                   nthreads, call, clock, terminated, appended, joined,
                   warned, Statics>>

\* a sampler that enters its critical section without taking the mutex
LoopLockNoWait(t) ==
    /\ ~terminated
    /\ thr[t].pc = "lock"
    /\ thr' = [thr EXCEPT ![t].pc = "push"]
    /\ UNCHANGED <<monitoring, monitoring_thread, data_mutex, metric_history,
                   nthreads, call, clock, terminated, appended, nbuilt, joined,
                   warned, Statics>>

\* std::lock_guard<std::mutex> lock(data_mutex);
LoopLock(t) ==
    /\ ~terminated
    /\ thr[t].pc = "lock"
    /\ CanLock(data_mutex)
    /\ data_mutex' = ByThread(t)
    /\ thr' = [thr EXCEPT ![t].pc = "push"]
    /\ UNCHANGED <<monitoring, monitoring_thread, metric_history, nthreads,
                   call, clock, terminated, appended, nbuilt, joined,
                   warned, Statics>>

\* metric_history.push(snapshot);
LoopPush(t) ==
    /\ ~terminated
    /\ thr[t].pc = "push"
    /\ metric_history' = Append(metric_history, thr[t].snapshot)
    /\ appended' = Append(appended, thr[t].snapshot)
    /\ thr' = [thr EXCEPT ![t].pc = "evict"]
    /\ UNCHANGED <<monitoring, monitoring_thread, data_mutex, nthreads, call,
                   clock, terminated, nbuilt, joined,
                   warned, Statics>>

\* an exception of push that leaves data_mutex locked
LoopPushThrowsHolds(t) ==
    /\ ~terminated
    /\ thr[t].pc = "push"
    /\ thr' = [thr EXCEPT ![t] = [pc |-> "sleep", snapshot |-> NoSnapshot]]
    /\ UNCHANGED <<monitoring, monitoring_thread, data_mutex, metric_history,
                   nthreads, call, clock, terminated, appended, nbuilt, joined,
                   warned, Statics>>

\* an exception of push that leaves monitor_loop
LoopPushThrowsEnds(t) ==
    /\ ~terminated
    /\ thr[t].pc = "push"
    /\ data_mutex' = Unlocked
    /\ thr' = [thr EXCEPT ![t] = [pc |-> "done", snapshot |-> NoSnapshot]]
    /\ UNCHANGED <<monitoring, monitoring_thread, metric_history, nthreads,
                   call, clock, terminated, appended, nbuilt, joined,
                   warned, Statics>>

\* push throws (std::bad_alloc): the lock_guard is destroyed by the unwinding
\* and the catch block of the loop logs the error
LoopPushThrows(t) ==
    /\ ~terminated
    /\ thr[t].pc = "push"
    /\ data_mutex' = Unlocked
    /\ thr' = [thr EXCEPT ![t] = [pc |-> "sleep", snapshot |-> NoSnapshot]]
    /\ UNCHANGED <<monitoring, monitoring_thread, metric_history, nthreads,
                   call, clock, terminated, appended, nbuilt, joined,
                   warned, Statics>>

\* eviction as soon as the queue is full
EvictAtCapacity(q) == IF Len(q) >= MAX_HISTORY_SIZE THEN Tail(q) ELSE q

\* eviction of the newest entry
EvictNewest(q) ==
    IF Len(q) > MAX_HISTORY_SIZE THEN SubSeq(q, 1, Len(q) - 1) ELSE q

\* the queue after: if (metric_history.size() > MAX_HISTORY_SIZE) pop();
Evict(q) == IF Len(q) > MAX_HISTORY_SIZE THEN Tail(q) ELSE q

LoopEvict(t) ==
    /\ ~terminated
    /\ thr[t].pc = "evict"
    /\ metric_history' = Evict(metric_history)
    /\ thr' = [thr EXCEPT ![t].pc = "warn"]
    /\ UNCHANGED <<monitoring, monitoring_thread, data_mutex, nthreads, call,
                   clock, terminated, appended, nbuilt, joined,
                   warned, Statics>>

\* a warning as soon as the threshold is reached
WarningsAtThreshold(s) ==
    {k \in {"cpu"} : s.cpu_usage >= WarnThreshold}
        \cup {k \in {"mem"} : s.memory_usage >= WarnThreshold}

\* if (snapshot.cpu_usage > 90.0) logger.warn(...);
\* if (snapshot.memory_usage > 90.0) logger.warn(...);
Warnings(s) ==
    {k \in {"cpu"} : s.cpu_usage > WarnThreshold}
        \cup {k \in {"mem"} : s.memory_usage > WarnThreshold}

\* the two threshold tests, then the end of the try block releases the lock
LoopWarn(t) ==
    /\ ~terminated
    /\ thr[t].pc = "warn"
    /\ warned' = [warned EXCEPT ![t] = Warnings(thr[t].snapshot)]
    /\ data_mutex' = Unlocked
    /\ thr' = [thr EXCEPT ![t] = [pc |-> "sleep", snapshot |-> NoSnapshot]]
    /\ UNCHANGED <<monitoring, monitoring_thread, metric_history, nthreads,
                   call, clock, terminated, appended, nbuilt, joined,
                   Statics>>

\* std::this_thread::sleep_for(std::chrono::seconds(1));
LoopSleep(t) ==
    /\ ~terminated
    /\ thr[t].pc = "sleep"
    /\ thr' = [thr EXCEPT ![t].pc = "check"]
    /\ UNCHANGED <<monitoring, monitoring_thread, data_mutex, metric_history,
                   nthreads, call, clock, terminated, appended, nbuilt, joined,
                   warned, Statics>>

\* ------------------------------------------------------------ get_history
\* a caller thread enters get_history(count)
GhCall(c, n) ==
    /\ ~terminated
    /\ call[c].pc = "idle"
    /\ call' = [call EXCEPT ![c] = [IdleCall EXCEPT !.pc = "gh_lock",
                                                    !.count = n]]
    /\ UNCHANGED <<monitoring, monitoring_thread, data_mutex, metric_history,
                   thr, nthreads, clock, terminated, appended, nbuilt, joined,
                   warned, Statics>>

\* the conversion of an int argument to the size_t parameter (64 bits,
\* scaled down like the other 64-bit unsigned values)
ToSizeT(n) == n % ULL

\* the counts a caller that computes with int can pass
SignedCounts == {-1, 0, 1}

\* a caller thread calls get_history with an int argument
GhCallSigned(c, n) ==
    /\ ~terminated
    /\ call[c].pc = "idle"
    /\ call' = [call EXCEPT ![c] = [IdleCall EXCEPT !.pc = "gh_lock",
                                                    !.arg = n,
                                                    !.count = ToSizeT(n)]]
    /\ UNCHANGED <<monitoring, monitoring_thread, data_mutex, metric_history,
                   thr, nthreads, clock, terminated, appended, nbuilt, joined,
                   warned, Statics>>

\* std::lock_guard<std::mutex> lock(data_mutex);
GhLock(c) ==
    /\ ~terminated
    /\ call[c].pc = "gh_lock"
    /\ CanLock(data_mutex)
    /\ data_mutex' = ByCaller(c)
    /\ call' = [call EXCEPT ![c].pc = "gh_size"]
    /\ UNCHANGED <<monitoring, monitoring_thread, metric_history, thr,
                   nthreads, clock, terminated, appended, nbuilt, joined,
                   warned, Statics>>

\* size_t size = metric_history.size(); size_t items = ...;
GhSize(c) ==
    /\ ~terminated
    /\ call[c].pc = "gh_size"
    /\ call' = [call EXCEPT ![c].pc = "gh_copy",
                            ![c].size = Len(metric_history),
                            ![c].items = Items(call[c].count,
                                               Len(metric_history))]
    /\ UNCHANGED <<monitoring, monitoring_thread, data_mutex, metric_history,
                   thr, nthreads, clock, terminated, appended, nbuilt, joined,
                   warned, Statics>>

\* the local queue takes the entries away from the history buffer
GhCopyMoves(c) ==
    /\ ~terminated
    /\ call[c].pc = "gh_copy"
    /\ call' = [call EXCEPT ![c].pc = "gh_loop", ![c].temp = metric_history]
    /\ metric_history' = <<>>
    /\ UNCHANGED <<monitoring, monitoring_thread, data_mutex,
                   thr, nthreads, clock, terminated, appended, nbuilt, joined,
                   warned, Statics>>

\* std::queue<MetricSnapshot> temp = metric_history;
GhCopy(c) ==
    /\ ~terminated
    /\ call[c].pc = "gh_copy"
    /\ call' = [call EXCEPT ![c].pc = "gh_loop", ![c].temp = metric_history]
    /\ UNCHANGED <<monitoring, monitoring_thread, data_mutex, metric_history,
                   thr, nthreads, clock, terminated, appended, nbuilt, joined,
                   warned, Statics>>

\* the copy loop over the local queue, then return history: the lock_guard
\* is destroyed and the mutex released
GhLoop(c) ==
    /\ ~terminated
    /\ call[c].pc = "gh_loop"
    /\ LET r == CopyLoop(0, call[c].items, call[c].temp, <<>>)
       IN call' = [call EXCEPT ![c].pc = "gh_ret",
                               ![c].history = r.history,
                               ![c].temp = r.temp]
    /\ data_mutex' = Unlocked
    /\ UNCHANGED <<monitoring, monitoring_thread, metric_history, thr,
                   nthreads, clock, terminated, appended, nbuilt, joined,
                   warned, Statics>>

\* ---------------------------------------------------- get_current_metrics
\* a caller thread runs get_current_metrics (the /metrics route)
CmCall(c, Inputs) ==
    /\ ~terminated
    /\ call[c].pc = "idle"
    /\ \E in \in Inputs :
          call' = [call EXCEPT ![c] =
                      [IdleCall EXCEPT !.pc = "cm_ret",
                                       !.snap = GetCurrentMetrics(clock, in, 0),
                                       !.input = in]]
    /\ UNCHANGED <<monitoring, monitoring_thread, data_mutex, metric_history,
                   thr, nthreads, clock, terminated, appended, nbuilt, joined,
                   warned, Statics>>

\* the operation has returned to the caller thread, which goes on; the
\* locals and the returned value of the call are gone
Return(c) ==
    /\ ~terminated
    /\ call[c].pc \in {"gh_ret", "cm_ret", "st_ret", "sp_ret"}
    /\ call' = [call EXCEPT ![c] = IdleCall]
    /\ UNCHANGED <<monitoring, monitoring_thread, data_mutex, metric_history,
                   thr, nthreads, clock, terminated, appended, nbuilt, joined,
                   warned, Statics>>

\* -------------------------------------------------------- start_monitoring
\* callers between the flag test of start_monitoring and their thread spawn
Spawning == {c \in Callers : call[c].pc \in {"st_store", "st_spawn"}}

\* start_monitoring without the test of the flag
StLoadAlways(c) ==
    /\ ~terminated
    /\ call[c].pc = "idle"
    /\ nthreads + Cardinality(Spawning) < MaxThreads
    /\ call' = [call EXCEPT ![c] = [IdleCall EXCEPT !.pc = "st_store"]]
    /\ UNCHANGED <<monitoring, monitoring_thread, data_mutex, metric_history,
                   thr, nthreads, clock, terminated, appended, nbuilt, joined,
                   warned, Statics>>

\* if (monitoring.load()) return;
StLoad(c) ==
    /\ ~terminated
    /\ call[c].pc = "idle"
    /\ IF monitoring
       THEN call' = [call EXCEPT ![c] = [IdleCall EXCEPT !.pc = "st_ret",
                                                         !.result = "noop"]]
       ELSE /\ nthreads + Cardinality(Spawning) < MaxThreads
            /\ call' = [call EXCEPT ![c] = [IdleCall EXCEPT !.pc = "st_store"]]
    /\ UNCHANGED <<monitoring, monitoring_thread, data_mutex, metric_history,
                   thr, nthreads, clock, terminated, appended, nbuilt, joined,
                   warned, Statics>>

\* monitoring.store(true);
StStore(c) ==
    /\ ~terminated
    /\ call[c].pc = "st_store"
    /\ monitoring' = TRUE
    /\ call' = [call EXCEPT ![c].pc = "st_spawn"]
    /\ UNCHANGED <<monitoring_thread, data_mutex, metric_history, thr,
                   nthreads, clock, terminated, appended, nbuilt, joined,
                   warned, Statics>>

\* std::thread(&SystemMetrics::monitor_loop, this): the new thread runs
StSpawn(c) ==
    /\ ~terminated
    /\ call[c].pc = "st_spawn"
    /\ nthreads' = nthreads + 1
    /\ thr' = [thr EXCEPT ![nthreads + 1].pc = "check"]
    /\ call' = [call EXCEPT ![c].pc = "st_assign", ![c].target = nthreads + 1]
    /\ UNCHANGED <<monitoring, monitoring_thread, data_mutex, metric_history,
                   clock, terminated, appended, nbuilt, joined,
                   warned, Statics>>

\* monitoring_thread = <the new thread>: move assignment to a std::thread
\* that is still joinable calls std::terminate
StAssign(c) ==
    /\ ~terminated
    /\ call[c].pc = "st_assign"
    /\ IF monitoring_thread # NoThread
       THEN /\ terminated' = TRUE
            /\ UNCHANGED <<monitoring_thread, call>>
       ELSE /\ monitoring_thread' = call[c].target
            /\ call' = [call EXCEPT ![c] = [IdleCall EXCEPT !.pc = "st_ret",
                                                              !.result = "ok"]]
            /\ UNCHANGED terminated
    /\ UNCHANGED <<monitoring, data_mutex, metric_history, thr, nthreads,
                   clock, appended, nbuilt, joined,
                   warned, Statics>>

\* --------------------------------------------------------- stop_monitoring
\* if (!monitoring.load()) return;
SpLoad(c) ==
    /\ ~terminated
    /\ call[c].pc = "idle"
    /\ IF ~monitoring
       THEN call' = [call EXCEPT ![c] = [IdleCall EXCEPT !.pc = "sp_ret",
                                                         !.result = "noop"]]
       ELSE call' = [call EXCEPT ![c] = [IdleCall EXCEPT !.pc = "sp_store"]]
    /\ UNCHANGED <<monitoring, monitoring_thread, data_mutex, metric_history,
                   thr, nthreads, clock, terminated, appended, nbuilt, joined,
                   warned, Statics>>

\* monitoring.store(false);
SpStore(c) ==
    /\ ~terminated
    /\ call[c].pc = "sp_store"
    /\ monitoring' = FALSE
    /\ call' = [call EXCEPT ![c].pc = "sp_joinable"]
    /\ UNCHANGED <<monitoring_thread, data_mutex, metric_history, thr,
                   nthreads, clock, terminated, appended, nbuilt, joined,
                   warned, Statics>>

\* if (monitoring_thread.joinable())
SpJoinable(c) ==
    /\ ~terminated
    /\ call[c].pc = "sp_joinable"
    /\ IF monitoring_thread # NoThread
       THEN call' = [call EXCEPT ![c].pc = "sp_join",
                                 ![c].target = monitoring_thread]
       ELSE call' = [call EXCEPT ![c] = [IdleCall EXCEPT !.pc = "sp_ret",
                                                         !.result = "ok"]]
    /\ UNCHANGED <<monitoring, monitoring_thread, data_mutex, metric_history,
                   thr, nthreads, clock, terminated, appended, nbuilt, joined,
                   warned, Statics>>

\* a join that also empties the history buffer
SpJoinClears(c) ==
    /\ ~terminated
    /\ call[c].pc = "sp_join"
    /\ thr[call[c].target].pc = "done"
    /\ monitoring_thread' = NoThread
    /\ joined' = joined \cup {call[c].target}
    /\ \E res \in IF call[c].target \in joined THEN {"ok", "error"} ELSE {"ok"} :
          call' = [call EXCEPT ![c] = [IdleCall EXCEPT !.pc = "sp_ret",
                                                        !.result = res]]
    /\ metric_history' = <<>>
    /\ UNCHANGED <<monitoring, data_mutex, thr, nthreads,
                   clock, terminated, appended, nbuilt,
                   warned, Statics>>

\* monitoring_thread.join(): waits until the thread has left monitor_loop,
\* then empties the handle.  Joining a thread that another caller has joined
\* already is undefined: the call returns, or it throws std::system_error.
SpJoin(c) ==
    /\ ~terminated
    /\ call[c].pc = "sp_join"
    /\ thr[call[c].target].pc = "done"
    /\ monitoring_thread' = NoThread
    /\ joined' = joined \cup {call[c].target}
    /\ \E res \in IF call[c].target \in joined THEN {"ok", "error"} ELSE {"ok"} :
          call' = [call EXCEPT ![c] = [IdleCall EXCEPT !.pc = "sp_ret",
                                                        !.result = res]]
    /\ UNCHANGED <<monitoring, data_mutex, metric_history, thr, nthreads,
                   clock, terminated, appended, nbuilt,
                   warned, Statics>>

\* ---------------------------------------------------------- get_cpu_usage
\* The statement-level run of get_cpu_usage, for the specification that
\* looks at its static variables; the other specifications take the value it
\* returns as an input of the snapshot.

\* the values the cpu line of /proc/stat goes through
Jiffies == 0..1

\* 0.0 / 0 and x / 0 in double arithmetic
NotANumber == -1
Infinity == 100 * ULL

\* the kernel counts on
ProcAdvance ==
    /\ ~terminated
    /\ \E b \in Jiffies, i \in Jiffies :
          /\ b >= procstat.busy /\ i >= procstat.idle
          /\ b + i = procstat.busy + procstat.idle + 1
          /\ procstat' = [busy |-> b, idle |-> i]
    /\ UNCHANGED <<monitoring, monitoring_thread, data_mutex, metric_history,
                   thr, nthreads, call, clock, terminated, appended, nbuilt,
                   joined, warned, first_call, lastTotal, cpucall>>

\* lines 301-305: the share of the busy jiffies since the last call
Percent(now, last) ==
    LET busy == (now.busy - last.busy) % ULL
        total == (busy + ((now.idle - last.idle) % ULL)) % ULL
    IN  IF total = 0
        THEN IF busy = 0 THEN NotANumber ELSE Infinity
        ELSE (busy * 100) \div total

\* lines 281-289: the cpu line of /proc/stat is read into the locals
CpuBegin(a) ==
    cpucall' = [cpucall EXCEPT ![a] = [NoCpuCall EXCEPT !.pc = "test",
                                                        !.now = procstat]]

\* what the reads of the four counters at lines 301 and 303 can see: nothing
\* orders them with the writes of another thread at lines 292-295 or 307-310
LastSeen(a) ==
    LET writers == {b \in Actors \ {a} : cpucall[b].pc \in {"first", "upd"}}
    IN  {lastTotal}
            \cup {[busy |-> cpucall[b].now.busy, idle |-> lastTotal.idle] :
                      b \in writers}
            \cup {[busy |-> lastTotal.busy, idle |-> cpucall[b].now.idle] :
                      b \in writers}

\* if (first_call)
CpuTest(a) ==
    /\ ~terminated
    /\ cpucall[a].pc = "test"
    /\ cpucall' = [cpucall EXCEPT
                      ![a].pc = IF first_call THEN "first" ELSE "calc"]
    /\ UNCHANGED <<monitoring, monitoring_thread, data_mutex, metric_history,
                   thr, nthreads, call, clock, terminated, appended, nbuilt,
                   joined, warned, first_call, lastTotal, procstat>>

\* lines 292-297: the first call stores the counters and returns 0.0
CpuFirst(a) ==
    /\ ~terminated
    /\ cpucall[a].pc = "first"
    /\ lastTotal' = cpucall[a].now
    /\ first_call' = FALSE
    /\ cpucall' = [cpucall EXCEPT ![a].pc = "ret", ![a].percent = 0]
    /\ UNCHANGED <<monitoring, monitoring_thread, data_mutex, metric_history,
                   thr, nthreads, call, clock, terminated, appended, nbuilt,
                   joined, warned, procstat>>

\* lines 301-305: the static counters are read and the percentage computed
CpuCalc(a) ==
    /\ ~terminated
    /\ cpucall[a].pc = "calc"
    /\ \E last \in LastSeen(a) :
          cpucall' = [cpucall EXCEPT
                         ![a].pc = "upd",
                         ![a].percent = Percent(cpucall[a].now, last)]
    /\ UNCHANGED <<monitoring, monitoring_thread, data_mutex, metric_history,
                   thr, nthreads, call, clock, terminated, appended, nbuilt,
                   joined, warned, first_call, lastTotal, procstat>>

\* lines 307-312: the static counters are overwritten
CpuUpdate(a) ==
    /\ ~terminated
    /\ cpucall[a].pc = "upd"
    /\ lastTotal' = cpucall[a].now
    /\ cpucall' = [cpucall EXCEPT ![a].pc = "ret"]
    /\ UNCHANGED <<monitoring, monitoring_thread, data_mutex, metric_history,
                   thr, nthreads, call, clock, terminated, appended, nbuilt,
                   joined, warned, first_call, procstat>>

CpuStep(a) == CpuTest(a) \/ CpuFirst(a) \/ CpuCalc(a) \/ CpuUpdate(a)

\* the snapshot with the value get_cpu_usage returned
WithCpu(in, percent) == [in EXCEPT !.cpu = percent]

\* monitor_loop, line 157: get_current_metrics enters get_cpu_usage
LoopCpuBegin(t) ==
    /\ ~terminated
    /\ thr[t].pc = "build"
    /\ thr' = [thr EXCEPT ![t].pc = "cpu"]
    /\ CpuBegin(ByThread(t))
    /\ UNCHANGED <<monitoring, monitoring_thread, data_mutex, metric_history,
                   nthreads, call, clock, terminated, appended, nbuilt,
                   joined, warned, first_call, lastTotal, procstat>>

\* monitor_loop, line 157: the rest of get_current_metrics
LoopCpuBuild(t) ==
    /\ ~terminated
    /\ thr[t].pc = "cpu"
    /\ cpucall[ByThread(t)].pc = "ret"
    /\ \E in \in CoarseInputs :
          thr' = [thr EXCEPT
                     ![t].pc = "lock",
                     ![t].snapshot =
                         GetCurrentMetrics(
                             clock,
                             WithCpu(in, cpucall[ByThread(t)].percent),
                             nbuilt + 1)]
    /\ nbuilt' = nbuilt + 1
    /\ cpucall' = [cpucall EXCEPT ![ByThread(t)] = NoCpuCall]
    /\ UNCHANGED <<monitoring, monitoring_thread, data_mutex, metric_history,
                   nthreads, call, clock, terminated, appended, joined,
                   warned, first_call, lastTotal, procstat>>

\* a caller thread enters get_current_metrics and with it get_cpu_usage
CmCpuBegin(c) ==
    /\ ~terminated
    /\ call[c].pc = "idle"
    /\ call' = [call EXCEPT ![c].pc = "cm_cpu"]
    /\ CpuBegin(ByCaller(c))
    /\ UNCHANGED <<monitoring, monitoring_thread, data_mutex, metric_history,
                   thr, nthreads, clock, terminated, appended, nbuilt,
                   joined, warned, first_call, lastTotal, procstat>>

\* the rest of get_current_metrics on the caller thread
CmCpuBuild(c) ==
    /\ ~terminated
    /\ call[c].pc = "cm_cpu"
    /\ cpucall[ByCaller(c)].pc = "ret"
    /\ \E in \in CoarseInputs :
          call' = [call EXCEPT ![c] =
                      [IdleCall EXCEPT
                          !.pc = "cm_ret",
                          !.snap =
                              GetCurrentMetrics(
                                  clock,
                                  WithCpu(in, cpucall[ByCaller(c)].percent),
                                  0),
                          !.input = in]]
    /\ cpucall' = [cpucall EXCEPT ![ByCaller(c)] = NoCpuCall]
    /\ UNCHANGED <<monitoring, monitoring_thread, data_mutex, metric_history,
                   thr, nthreads, clock, terminated, appended, nbuilt,
                   joined, warned, first_call, lastTotal, procstat>>

\* ----------------------------------------------------------- specification
LoopStep(t) ==
    \/ LoopCheck(t)
    \/ LoopBuild(t, CoarseInputs)
    \/ LoopLock(t)
    \/ LoopPush(t)
    \/ LoopPushThrows(t)
    \/ LoopEvict(t)
    \/ LoopWarn(t)
    \/ LoopSleep(t)

QueryStep(c) ==
    \/ \E n \in Counts : GhCall(c, n)
    \/ GhLock(c)
    \/ GhSize(c)
    \/ GhCopy(c)
    \/ GhLoop(c)
    \/ CmCall(c, CoarseInputs)
    \/ Return(c)

LifeStep(c) ==
    \/ StLoad(c)
    \/ StStore(c)
    \/ StSpawn(c)
    \/ StAssign(c)
    \/ SpLoad(c)
    \/ SpStore(c)
    \/ SpJoinable(c)
    \/ SpJoin(c)
    \/ Return(c)

\* The program as main() and the web server drive it: one thread owns the
\* lifecycle of the monitor (start_monitoring and stop_monitoring are called
\* one after the other), every caller thread issues queries.  No statement
\* of the program tests a timestamp, so the clock is left at rest here.
Owner == 1

Next ==
    \/ \E t \in ThreadIds : LoopStep(t)
    \/ \E c \in Callers : QueryStep(c)
    \/ LifeStep(Owner)

Spec == Init /\ [][Next]_vars

\* The monitor with start_monitoring and stop_monitoring called from any
\* caller thread at any time.
NextRace ==
    \/ \E t \in ThreadIds : LoopStep(t)
    \/ \E c \in Callers : LifeStep(c)

SpecRace == Init /\ [][NextRace]_vars

\* The same with the clock running and with callers that also read the whole
\* history.
OrderStep(c) ==
    \/ LifeStep(c)
    \/ GhCall(c, 0)
    \/ GhLock(c)
    \/ GhSize(c)
    \/ GhCopy(c)
    \/ GhLoop(c)

NextOrder ==
    \/ Tick
    \/ \E t \in ThreadIds : LoopStep(t)
    \/ \E c \in Callers : OrderStep(c)

SpecOrder == Init /\ [][NextOrder]_vars

\* The sources in isolation: one caller thread runs get_current_metrics on
\* every outcome of the five sources.
NextBuild ==
    \/ Tick
    \/ CmCall(Owner, AllInputs)
    \/ Return(Owner)

SpecBuild == Init /\ [][NextBuild]_vars

\* The monitor under a fair scheduler: the owner starts and stops it, the
\* other caller reads the whole history.  A sampler thread that can take a
\* step takes one, a reader inside get_history runs on to its return, and a
\* thread that waits for the mutex gets it if it is free again and again.
\* Nothing obliges a caller to call.
Reader == 2

ReadStep(c) ==
    \/ GhCall(c, 0)
    \/ GhLock(c)
    \/ GhSize(c)
    \/ GhCopy(c)
    \/ GhLoop(c)
    \/ Return(c)

ReadOn(c) == GhSize(c) \/ GhCopy(c) \/ GhLoop(c)

NextLive ==
    \/ \E t \in ThreadIds : LoopStep(t)
    \/ LifeStep(Owner)
    \/ ReadStep(Reader)

Fairness ==
    /\ \A t \in ThreadIds : WF_vars(LoopStep(t)) /\ SF_vars(LoopLock(t))
    /\ WF_vars(ReadOn(Reader)) /\ SF_vars(GhLock(Reader))

SpecLive == Init /\ [][NextLive]_vars /\ Fairness

\* The monitor with get_cpu_usage run statement by statement, driven as
\* main() drives it: the owner starts the monitor and never stops it, the
\* other caller asks for the current metrics, and the kernel counters of
\* /proc/stat move on.
StartStep(c) ==
    \/ StLoad(c)
    \/ StStore(c)
    \/ StSpawn(c)
    \/ StAssign(c)
    \/ Return(c)

CpuLoopStep(t) ==
    \/ LoopCheck(t)
    \/ LoopCpuBegin(t)
    \/ CpuStep(ByThread(t))
    \/ LoopCpuBuild(t)
    \/ LoopLock(t)
    \/ LoopPush(t)
    \/ LoopEvict(t)
    \/ LoopWarn(t)
    \/ LoopSleep(t)

CpuQueryStep(c) ==
    \/ CmCpuBegin(c)
    \/ CpuStep(ByCaller(c))
    \/ CmCpuBuild(c)
    \/ Return(c)

NextCpu ==
    \/ ProcAdvance
    \/ \E t \in ThreadIds : CpuLoopStep(t)
    \/ StartStep(Owner)
    \/ CpuQueryStep(Reader)

SpecCpu == Init /\ [][NextCpu]_vars

\* The started monitor with a caller that passes int arguments to
\* get_history.
SignedStep(c) ==
    \/ \E n \in SignedCounts : GhCallSigned(c, n)
    \/ GhLock(c)
    \/ GhSize(c)
    \/ GhCopy(c)
    \/ GhLoop(c)
    \/ Return(c)

NextSigned ==
    \/ \E t \in ThreadIds : LoopStep(t)
    \/ StartStep(Owner)
    \/ SignedStep(Reader)

SpecSigned == Init /\ [][NextSigned]_vars

\* The started monitor alone, with cpu and memory readings at and above the
\* warning threshold.
TickInputs ==
    {in \in AllInputs :
        /\ in.cpu >= WarnThreshold /\ in.mem >= WarnThreshold
        /\ in.disk = 0 /\ in.net = 0 /\ in.procs = <<>> /\ in.fail = 0
        /\ in.ucpu = 0 /\ in.umem = 0 /\ in.udisk = 0 /\ in.unet = 0}

TickStep(t) ==
    \/ LoopCheck(t)
    \/ LoopBuild(t, TickInputs)
    \/ LoopLock(t)
    \/ LoopPush(t)
    \/ LoopPushThrows(t)
    \/ LoopEvict(t)
    \/ LoopWarn(t)
    \/ LoopSleep(t)

NextTick ==
    \/ \E t \in ThreadIds : TickStep(t)
    \/ StartStep(Owner)

SpecTick == Init /\ [][NextTick]_vars

\* One caller thread starts the monitor, another one stops it, under a fair
\* scheduler: a sampler thread that can take a step takes one, and a caller
\* inside start_monitoring or stop_monitoring runs on.  Nothing obliges a
\* caller to call.
Stopper == 2

StopStep(c) ==
    \/ SpLoad(c)
    \/ SpStore(c)
    \/ SpJoinable(c)
    \/ SpJoin(c)
    \/ Return(c)

LifeOn(c) ==
    \/ StStore(c)
    \/ StSpawn(c)
    \/ StAssign(c)
    \/ SpStore(c)
    \/ SpJoinable(c)
    \/ SpJoin(c)

NextRestart ==
    \/ \E t \in ThreadIds : LoopStep(t)
    \/ StartStep(Owner)
    \/ StopStep(Stopper)

FairnessRace ==
    /\ \A t \in ThreadIds : WF_vars(LoopStep(t)) /\ SF_vars(LoopLock(t))
    /\ \A c \in Callers : WF_vars(LifeOn(c))

SpecRestartFair == Init /\ [][NextRestart]_vars /\ FairnessRace

\* ------------------------------------------------------------- properties
Min(a, b) == IF a < b THEN a ELSE b

\* the last n elements of s
LastN(s, n) == SubSeq(s, Len(s) - n + 1, Len(s))

\* the queue after k snapshots have been appended to a buffer of capacity
\* MAX_HISTORY_SIZE with strict FIFO eviction
Retained(k) == LastN(SubSeq(appended, 1, k), Min(k, MAX_HISTORY_SIZE))

\* no sampler thread is between the push and the eviction of one append
AppendsComplete == \A t \in ThreadIds : thr[t].pc # "evict"

\* the callers whose get_history holds the lock and has read the size
Sized == {c \in Callers : call[c].pc \in {"gh_copy", "gh_loop"}}

\* the callers to which get_history has returned
Got == {c \in Callers : call[c].pc = "gh_ret"}

\* C1: after every completed append the history buffer holds
\* min(appends so far, MAX_HISTORY_SIZE) entries, and that is the size every
\* get_history call reads; no call reads more than MAX_HISTORY_SIZE.
C1_BoundedSize ==
    /\ AppendsComplete =>
          Len(metric_history) = Min(Len(appended), MAX_HISTORY_SIZE)
    /\ \A c \in Sized :
          call[c].size = Min(Len(appended), MAX_HISTORY_SIZE)
    /\ \A c \in Got : call[c].size <= MAX_HISTORY_SIZE

C1_Witness ==
    /\ AppendsComplete
    /\ Len(appended) > MAX_HISTORY_SIZE
    /\ Len(metric_history) = MAX_HISTORY_SIZE
    /\ \E c \in Sized : call[c].size = MAX_HISTORY_SIZE

\* C2 as stated: the oldest entry is evicted before the new one is inserted,
\* so the buffer never holds more than MAX_HISTORY_SIZE entries, not even
\* inside an append.
C2_NeverAboveCapacity == Len(metric_history) <= MAX_HISTORY_SIZE

\* C2 amended: the new entry is pushed first and the oldest is popped right
\* after it, both under data_mutex: the buffer holds MAX_HISTORY_SIZE + 1
\* entries only between the push and the pop of a sampler thread that holds
\* the mutex, never more, and no get_history reads a size above
\* MAX_HISTORY_SIZE.
C2_TransientUnderLock ==
    /\ Len(metric_history) <= MAX_HISTORY_SIZE + 1
    /\ Len(metric_history) = MAX_HISTORY_SIZE + 1 =>
          \E t \in ThreadIds : thr[t].pc = "evict" /\ data_mutex = ByThread(t)
    /\ \A c \in Sized \cup Got : call[c].size <= MAX_HISTORY_SIZE

C2_Witness ==
    /\ Len(metric_history) = MAX_HISTORY_SIZE + 1
    /\ \E c \in Callers : call[c].pc = "gh_lock"

\* C3: eviction is strictly FIFO: after k appends the buffer holds the last
\* min(k, MAX_HISTORY_SIZE) snapshots appended, in the order of their
\* insertion, and get_history(0) returns the buffer as it was after some
\* number of appends.
C3_Fifo ==
    /\ AppendsComplete => metric_history = Retained(Len(appended))
    /\ \A c \in Got :
          call[c].count = 0 =>
              \E k \in 0..Len(appended) : call[c].history = Retained(k)

C3_Witness ==
    /\ Len(appended) = MAX_HISTORY_SIZE + 1
    /\ \E c \in Got :
          /\ call[c].count = 0
          /\ call[c].history = SubSeq(appended, 2, MAX_HISTORY_SIZE + 1)

\* C4: get_history(n) returns min(n, size) entries for n > 0 and size entries
\* for n = 0, size being the size of the buffer while the call holds the lock.
C4_HistoryLength ==
    /\ \A c \in Sized : call[c].size = Len(metric_history)
    /\ \A c \in Got :
          Len(call[c].history) =
              IF call[c].count = 0 THEN call[c].size
              ELSE Min(call[c].count, call[c].size)

C4_Witness ==
    \E c \in Got :
       /\ call[c].count = 2
       /\ call[c].size = 3
       /\ Len(call[c].history) = 2

\* C5: for 0 < n < size get_history(n) returns the n entries inserted last,
\* oldest first.  (history \o temp is the copy of the buffer the call took.)
C5_MostRecent ==
    \A c \in Got :
       (0 < call[c].count /\ call[c].count < call[c].size) =>
           call[c].history =
               LastN(call[c].history \o call[c].temp, call[c].count)

\* timestamps of a sequence of snapshots never decrease
NonDecreasing(h) ==
    \A i \in 1..(Len(h) - 1) : h[i].timestamp <= h[i + 1].timestamp

\* C6: whatever the callers of start_monitoring, stop_monitoring and the
\* queries do, get_history(0) returns the entries in insertion order with
\* capture timestamps that never decrease.
C6_CaptureOrder ==
    \A c \in Got :
       call[c].count = 0 =>
           /\ \E k \in 0..Len(appended) : call[c].history = Retained(k)
           /\ NonDecreasing(call[c].history)

\* the first n entries of q, all of them for n = 0
Oldest(q, n) == SubSeq(q, 1, IF n = 0 THEN Len(q) ELSE Min(n, Len(q)))

\* no snapshot occurs twice in h
NoDuplicate(h) ==
    \A i, j \in 1..Len(h) : h[i].seq = h[j].seq => i = j

\* C7: every get_history(n), however it interleaves with the sampler and
\* with other readers, returns what one buffer state between two appends
\* yields: at its return the buffer is the FIFO content after the appends
\* completed so far and the result is the first n entries of it (all for
\* n = 0), without duplicates and at most min(n, MAX_HISTORY_SIZE) long for
\* n > 0.
C7_NoTornRead ==
    [][\A c \in Callers :
          (call[c].pc = "gh_loop" /\ call'[c].pc = "gh_ret") =>
              /\ metric_history = Retained(Len(appended))
              /\ call'[c].history = Oldest(metric_history, call[c].count)
              /\ NoDuplicate(call'[c].history)
              /\ call[c].count > 0 =>
                    Len(call'[c].history)
                        <= Min(call[c].count, MAX_HISTORY_SIZE)]_vars

C7_Witness ==
    /\ \E t \in ThreadIds : thr[t].pc = "evict"
    /\ \A c \in Callers :
          /\ c \in Got
          /\ call[c].count > 0
          /\ call[c].history # <<>>
    /\ \E c, d \in Callers : call[c].history # call[d].history

\* C8: when one metric source throws, get_current_metrics still returns a
\* snapshot whose other fields hold what their sources produce and whose
\* failing field holds the sentinel (0.0, an empty list of processes).
C8_PartialFailure ==
    LET in == call[Owner].input
        s == call[Owner].snap
        Sentinel == 0
    IN (call[Owner].pc = "cm_ret" /\ in.fail # 0) =>
          /\ s.cpu_usage = (IF in.fail = SrcCpu THEN Sentinel ELSE in.cpu)
          /\ s.memory_usage = (IF in.fail = SrcMem THEN Sentinel ELSE in.mem)
          /\ s.disk_usage = (IF in.fail = SrcDisk THEN Sentinel ELSE in.disk)
          /\ s.network_rx = (IF in.fail = SrcNet THEN Sentinel ELSE in.net)
          /\ s.network_tx = (IF in.fail = SrcNet THEN Sentinel ELSE in.net)
          /\ s.top_processes = (IF in.fail = SrcProc THEN <<>> ELSE in.procs)

\* C9: with start_monitoring and stop_monitoring called one after the other,
\* every return of start_monitoring (first or repeated) leaves the flag set
\* and exactly one sampler loop, the one the handle refers to and the only
\* one not yet joined; every return of stop_monitoring (first or repeated)
\* leaves the flag clear, no sampler loop and an empty handle; neither
\* raises an error.
C9_IdempotentLifecycle ==
    /\ ~terminated
    /\ call[Owner].pc = "st_ret" =>
          /\ monitoring
          /\ Active = {monitoring_thread}
          /\ nthreads = Cardinality(joined) + 1
    /\ call[Owner].pc = "sp_ret" =>
          /\ ~monitoring
          /\ Active = {}
          /\ monitoring_thread = NoThread
          /\ nthreads = Cardinality(joined)
          /\ call[Owner].result # "error"

C9_Witness ==
    /\ call[Owner].pc = "st_ret"
    /\ call[Owner].result = "noop"
    /\ joined # {}

\* C10: under any interleaving of start_monitoring and stop_monitoring calls
\* at most one sampler loop is active, and no caller is about to assign to a
\* thread handle that still refers to a running thread.
C10_AtMostOneSampler ==
    /\ Cardinality(Active) <= 1
    /\ \A c \in Callers :
          call[c].pc = "st_assign" => monitoring_thread \notin Active

\* the callers inside start_monitoring
Starting ==
    {c \in Callers : call[c].pc \in {"st_store", "st_spawn", "st_assign"}}

\* C11: whenever a call of stop_monitoring returns and no start_monitoring
\* is under way, no sampler loop is running any more (so nothing appends to
\* the history buffer until a later start); this holds for every caller of
\* stop_monitoring, also for one that calls while another is still joining.
C11_StopMeansStopped ==
    [][\A c \in Callers :
          (call[c].pc # "sp_ret" /\ call'[c].pc = "sp_ret" /\ Starting = {})
              => Active' = {}]_vars

\* the model builds no further snapshot
BudgetSpent ==
    nbuilt + Cardinality({u \in ThreadIds : thr[u].pc = "build"}) >= MaxBuilds

\* C12: an error raised in a tick of monitor_loop does not end the loop: a
\* sampler leaves the loop only at the test of the monitoring flag and only
\* when the flag is false, every tick, failed or not, ends in the sleep, and
\* after the sleep the sampler attempts the next tick unless the flag has
\* been cleared.
C12_TickErrorCaught ==
    /\ [][\A t \in ThreadIds :
            /\ (thr[t].pc # "done" /\ thr'[t].pc = "done")
                   => (thr[t].pc = "check" /\ ~monitoring)
            /\ (thr[t].pc = "push" /\ thr'[t].pc # "push")
                   => thr'[t].pc \in {"evict", "sleep"}]_vars
    /\ \A t \in ThreadIds :
          (thr[t].pc \in {"push", "evict", "warn"}) ~> (thr[t].pc = "sleep")
    /\ \A t \in ThreadIds :
          (thr[t].pc = "sleep")
              ~> (thr[t].pc = "build" \/ ~monitoring \/ BudgetSpent)

\* a sampler attempts a tick after a tick whose snapshot was lost to an error
C12_Witness ==
    \E t \in ThreadIds :
        /\ Active = {t}
        /\ thr[t].pc = "build"
        /\ monitoring
        /\ nbuilt > Len(appended)

\* the static variables the next statement of a call of get_cpu_usage reads
StaticsRead(a) ==
    CASE cpucall[a].pc = "test" -> {"first_call"}
      [] cpucall[a].pc = "calc" -> {"lastTotal"}
      [] OTHER -> {}

\* the static variables the next statement of a call of get_cpu_usage writes
StaticsWritten(a) ==
    CASE cpucall[a].pc = "first" -> {"first_call", "lastTotal"}
      [] cpucall[a].pc = "upd" -> {"lastTotal"}
      [] OTHER -> {}

\* two threads are about to access one static variable, one of them writes
\* it, and neither holds data_mutex
Unguarded(a, b) ==
    /\ data_mutex \notin {a, b}
    /\ \/ StaticsWritten(a) \cap (StaticsRead(b) \cup StaticsWritten(b)) # {}
       \/ StaticsWritten(b) \cap StaticsRead(a) # {}

\* C13: the history buffer is the only mutable state the sampler thread and
\* a caller of get_current_metrics share: at no time are a sampler tick and a
\* call of get_current_metrics about to access the same static counter of
\* get_cpu_usage, one of them writing, without holding the lock.
C13_OnlyHistoryShared ==
    \A t \in ThreadIds, c \in Callers : ~Unguarded(ByThread(t), ByCaller(c))

\* C14: a call of get_history with a negative count is rejected: it returns
\* a client error and no entry of the history buffer.
C14_NegativeRejected ==
    \A c \in Callers :
        (call[c].pc = "gh_ret" /\ call[c].arg < 0)
            => (call[c].result = "error" /\ call[c].history = <<>>)

\* the positions of a caller inside get_history or get_current_metrics
QueryPcs == {"gh_lock", "gh_size", "gh_copy", "gh_loop", "gh_ret", "cm_ret"}

\* this step is a step of a query of caller c
QueryStepOf(c) ==
    /\ call'[c] # call[c]
    /\ call[c].pc \in QueryPcs \/ call'[c].pc \in QueryPcs

\* C15: queries never change the history buffer: every step of get_history
\* (whatever its count) and of get_current_metrics leaves the contents of the
\* buffer as they are, and the sequence a get_history call has returned
\* stays what it was while the sampler appends and evicts.
C15_QueriesReadOnly ==
    [][\A c \in Callers :
          /\ QueryStepOf(c) => metric_history' = metric_history
          /\ (call[c].pc = "gh_ret" /\ call'[c].pc = "gh_ret")
                 => call'[c].history = call[c].history]_vars

\* a caller holds a returned sequence whose first entry has since been
\* evicted from the buffer
C15_Witness ==
    \E c \in Callers :
        /\ call[c].pc = "gh_ret"
        /\ call[c].history # <<>>
        /\ metric_history # <<>>
        /\ Head(metric_history).seq > Head(call[c].history).seq

\* C16: a sampler holds data_mutex only for the append and the eviction of
\* its tick: the snapshot is built before the lock is taken, and the
\* threshold tests and the warnings come after the lock is released.
C16_LockOnlyForAppend ==
    \A t \in ThreadIds :
        data_mutex = ByThread(t) => thr[t].pc \in {"push", "evict"}

\* the snapshots appended so far include the one sampler t holds
Pushed(t) == \E i \in 1..Len(appended) : appended[i] = thr[t].snapshot

\* C17: a tick runs build, append, threshold tests in this order, and the
\* tests log a CPU warning exactly if cpu_usage of the snapshot is above 90
\* and a memory warning exactly if memory_usage is above 90; a value of 90
\* logs nothing, and no other step of the tick logs a warning.
C17_WarnAboveNinety ==
    [][\A t \in ThreadIds :
          /\ (thr[t].pc # "push" /\ thr'[t].pc = "push")
                 => (thr[t].pc = "lock" /\ thr[t].snapshot.seq = nbuilt)
          /\ (thr[t].pc # "warn" /\ thr'[t].pc = "warn")
                 => (thr[t].pc = "evict" /\ Pushed(t))
          /\ IF thr[t].pc = "warn" /\ thr'[t].pc # "warn"
             THEN /\ Pushed(t)
                  /\ ("cpu" \in warned'[t]) <=> (thr[t].snapshot.cpu_usage > 90)
                  /\ ("mem" \in warned'[t])
                         <=> (thr[t].snapshot.memory_usage > 90)
             ELSE warned'[t] = warned[t]]_vars

\* a tick whose snapshot had cpu_usage 90 and memory_usage above 90 has
\* logged the memory warning alone
C17_Witness ==
    \E t \in ThreadIds :
        /\ thr[t].pc = "sleep"
        /\ appended # <<>>
        /\ appended[Len(appended)].cpu_usage = 90
        /\ appended[Len(appended)].memory_usage > 90
        /\ warned[t] = {"mem"}

\* C18: every call of stop_monitoring that has found the flag set returns in
\* the end, whatever calls of start_monitoring and stop_monitoring run at
\* the same time (up to the bound of the model on the snapshots built).
C18_StopReturns ==
    \A c \in Callers :
        (call[c].pc \in {"sp_store", "sp_joinable", "sp_join"})
            ~> (call[c].pc = "sp_ret" \/ BudgetSpent)

\* C19: a sampler holds data_mutex only inside the try block of its tick,
\* never while it sleeps, tests the flag or builds a snapshot, also not after
\* a tick that raised with the lock held; so every call of get_history that
\* waits for the lock gets it and returns, with the sampler running or not.
C19_LockWithinTick ==
    /\ [](\A t \in ThreadIds :
             data_mutex = ByThread(t) => thr[t].pc \in {"push", "evict", "warn"})
    /\ \A c \in Callers : (call[c].pc = "gh_lock") ~> (call[c].pc = "gh_ret")

\* a reader holds the lock while a sampler sleeps after a tick that raised
C19_Witness ==
    \E t \in ThreadIds, c \in Callers :
        /\ Active = {t}
        /\ thr[t].pc = "sleep"
        /\ nbuilt > Len(appended)
        /\ data_mutex = ByCaller(c)

\* sampler t takes the step that appends or the step that evicts
AppendOrEvict(t) == thr[t].pc \in {"push", "evict"} /\ thr'[t] # thr[t]

\* C20: the monitor can be started again and a stop keeps the history: the
\* buffer changes only by a sampler appending its snapshot at the back or
\* evicting the front entry when the capacity is exceeded, so no step of
\* stop_monitoring or start_monitoring alters it, and a start that spawns a
\* thread finds no sampler loop and leaves exactly one.
C20_RestartKeepsHistory ==
    [][/\ (metric_history' # metric_history)
            => (\E t \in ThreadIds :
                   /\ AppendOrEvict(t)
                   /\ \/ metric_history'
                             = Append(metric_history, thr[t].snapshot)
                      \/ /\ Len(metric_history) > MAX_HISTORY_SIZE
                         /\ metric_history' = Tail(metric_history))
       /\ (nthreads' # nthreads)
            => (Active = {} /\ Active' = {nthreads'})]_vars

\* the second sampler has appended its snapshot behind an entry the first
\* sampler, stopped and joined since, left in the buffer
C20_Witness ==
    /\ 1 \in joined
    /\ warned[1] # {}
    /\ thr[2].pc = "evict"
    /\ metric_history = appended
    /\ Len(metric_history) >= 2
    /\ metric_history[Len(metric_history)] = thr[2].snapshot

====
